---- MODULE Spec2Model ----
(***************************************************************************)
(* PDFMathTranslate API server (src/api_server.py) and its object-storage  *)
(* client (src/pdf2zh_next/storage.py).                                     *)
(*                                                                         *)
(* The server is one asyncio event loop.  A request handler or a           *)
(* background coroutine runs without interruption from one suspension      *)
(* point (an await that really waits) to the next, so every action below   *)
(* is one such run.  Python's None is the empty tuple and a present value  *)
(* v is <<v>>; a dict is a function on its keys.                           *)
(***************************************************************************)
EXTENDS Integers, Sequences, FiniteSets, TLC

(***************************************************************************)
(* Bounds of the model.                                                    *)
(***************************************************************************)
\* uuid4 values drawn for tasks (translate_with_file_id).
MaxTasks == 2
\* uuid4 values drawn for uploaded files (upload_file).
MaxFiles == 1
\* Tasks started in the specification that issues every request.
SoloTasks == 1

TaskIds == 1..MaxTasks
\* The path parameter task_id of a request is any string.  UploadsDir stands
\* for the string "uploads", the name of the directory upload_file creates
\* under pdf2zh_files (line 390); the ids uuid4 issues are 1, 2, ...
UploadsDir == 0
FileIds == 1..MaxFiles

None == <<>>
Some(v) == <<v>>

(***************************************************************************)
(* Bytes.  A content is a head (its first bytes, one string per byte)      *)
(* followed by pad further bytes, so that a content of 1,024 bytes or of   *)
(* more than 100 MB is one small value.                                    *)
(***************************************************************************)
PdfMagic == <<"%", "P", "D", "F", "-">>
MaxUploadBytes == 100 * 1024 * 1024

ByteLen(content) == Len(content.head) + content.pad

\* bytes.startswith
StartsWith(content, prefix) ==
    /\ Len(content.head) >= Len(prefix)
    /\ SubSeq(content.head, 1, Len(prefix)) = prefix

\* str.lower on the characters the filenames use
LowerChar(ch) ==
    CASE ch = "P" -> "p"
      [] ch = "D" -> "d"
      [] ch = "F" -> "f"
      [] ch = "A" -> "a"
      [] OTHER -> ch

Lower(name) == [i \in 1..Len(name) |-> LowerChar(name[i])]

\* str.endswith
EndsWith(name, suffix) ==
    /\ Len(name) >= Len(suffix)
    /\ SubSeq(name, Len(name) - Len(suffix) + 1, Len(name)) = suffix

DotPdf == <<".", "p", "d", "f">>

(***************************************************************************)
(* Inputs of the requests.                                                 *)
(***************************************************************************)
Pdf1024 == [head |-> PdfMagic \o <<"1">>, pad |-> 1018]
Pdf6 == [head |-> PdfMagic \o <<"2">>, pad |-> 0]
Empty == [head |-> <<>>, pad |-> 0]
Text10 == [head |-> <<"T", "h", "i", "s">>, pad |-> 6]
CutMagic == [head |-> <<"%", "P", "D", "F">>, pad |-> 0]
PastMagic == [head |-> <<"x">> \o PdfMagic, pad |-> 0]
TooLarge == [head |-> PdfMagic, pad |-> MaxUploadBytes]
HugeText == [head |-> <<"T">>, pad |-> MaxUploadBytes]
AtLimit == [head |-> PdfMagic, pad |-> MaxUploadBytes - Len(PdfMagic)]

Contents ==
    {Pdf1024, Pdf6, Empty, Text10, CutMagic, PastMagic, TooLarge, HugeText, AtLimit}

FileNames ==
    { <<>>,
      <<"A", ".", "P", "D", "F">>,
      <<"a", ".", "t", "x", "t">> }

VARIABLES
    uploaded_files,   \* api_server.uploaded_files: file_id -> path
    upload_dirs,      \* the directories pdf2zh_files/uploads/<file_id> on disk
    upload_fs,        \* the files under them: path -> content
    nFiles,           \* uuid4 values drawn by upload_file
    task_results,     \* api_server.task_results: task_id -> dict
    active_tasks,     \* api_server.active_tasks: the task_ids it holds
    nTasks,           \* uuid4 values drawn by translate_with_file_id
    pc,               \* where each task's coroutine _translation_task stands
    cancel_requested, \* asyncio.Task.cancel() was called on the running task
    last_event,       \* the last engine event the coroutine consumed
    locals,           \* the coroutine's local variables during the finish branch
    output_dirs,      \* the directories pdf2zh_files/<task_id> on disk
    output_fs,        \* the artifacts the engine wrote: path -> content
    storage_enabled,  \* StorageConfig.enabled, read from the environment once
    storage_cache,    \* storage._storage_cache: file_hash -> upload record
    net,              \* the artifact paths a POST and a PUT were sent for
    resp              \* the response of the step just taken, if a request

vars ==
    << uploaded_files, upload_dirs, upload_fs, nFiles, task_results, active_tasks,
       nTasks, pc, cancel_requested, last_event, locals, output_dirs, output_fs,
       storage_enabled, storage_cache, net, resp >>

fileVars == << uploaded_files, upload_dirs, upload_fs, nFiles >>
taskVars ==
    << task_results, active_tasks, nTasks, pc, cancel_requested, last_event,
       locals, output_dirs, output_fs >>
storeVars == << storage_enabled, storage_cache, net >>

\* dict.update
Update(d, u) == u @@ d

\* del d[k]
Del(d, k) == [x \in DOMAIN d \ {k} |-> d[x]]

\* d[k] = v
Put(d, k, v) == (k :> v) @@ d

\* fastapi.HTTPException
HTTPException(op, arg, status_code, detail) ==
    [op |-> op, arg |-> arg, code |-> status_code, body |-> [detail |-> detail]]

\* a handler's normal return
Ok(op, arg, body) == [op |-> op, arg |-> arg, code |-> 200, body |-> body]

\* a step of a background coroutine or of the outside world answers no request
NoResponse == [op |-> "", arg |-> None, code |-> 0, body |-> None]

(***************************************************************************)
(* File registry.                                                          *)
(***************************************************************************)
UploadPath(file_id, filename) == [file_id |-> file_id, name |-> filename]

\* Variant: the handlers trust the registry and do not look at the disk (no
\* lines 445-446).
UploadExistsUnchecked(path) == TRUE

\* Path.exists of an uploaded file
UploadExists(path) == path \in DOMAIN upload_fs

\* Variant: the handler trusts the extension and skips the %PDF- check of
\* lines 383-384.
UploadRejectionByName(filename, content) ==
    LET arg == [filename |-> filename, content |-> content] IN
    IF filename = <<>>
    THEN Some(HTTPException("upload_file", arg, 400, "No file provided or filename is missing"))
    ELSE IF ~EndsWith(Lower(filename), DotPdf)
    THEN Some(HTTPException("upload_file", arg, 400, "Only PDF files are supported"))
    ELSE IF ByteLen(content) = 0
    THEN Some(HTTPException("upload_file", arg, 400, "Uploaded file is empty"))
    ELSE IF ByteLen(content) > MaxUploadBytes
    THEN Some(HTTPException("upload_file", arg, 413, "File too large. Maximum size is 100MB"))
    ELSE None

\* Variant: the handler decides on the content alone, without the two
\* filename checks of lines 368-372.
UploadRejectionByContent(filename, content) ==
    LET arg == [filename |-> filename, content |-> content] IN
    IF ByteLen(content) = 0
    THEN Some(HTTPException("upload_file", arg, 400, "Uploaded file is empty"))
    ELSE IF ByteLen(content) > MaxUploadBytes
    THEN Some(HTTPException("upload_file", arg, 413, "File too large. Maximum size is 100MB"))
    ELSE IF ~StartsWith(content, PdfMagic)
    THEN Some(HTTPException("upload_file", arg, 400, "Invalid PDF file format"))
    ELSE None

\* The checks of upload_file, in the order the handler makes them: the
\* HTTPException it raises, or None when the upload is accepted.
UploadRejection(filename, content) ==
    LET arg == [filename |-> filename, content |-> content] IN
    IF filename = <<>>
    THEN Some(HTTPException("upload_file", arg, 400, "No file provided or filename is missing"))
    ELSE IF ~EndsWith(Lower(filename), DotPdf)
    THEN Some(HTTPException("upload_file", arg, 400, "Only PDF files are supported"))
    ELSE IF ByteLen(content) = 0
    THEN Some(HTTPException("upload_file", arg, 400, "Uploaded file is empty"))
    ELSE IF ByteLen(content) > MaxUploadBytes
    THEN Some(HTTPException("upload_file", arg, 413, "File too large. Maximum size is 100MB"))
    ELSE IF ~StartsWith(content, PdfMagic)
    THEN Some(HTTPException("upload_file", arg, 400, "Invalid PDF file format"))
    ELSE None

\* Variant: the handler copies the upload stream to the file after reading
\* it (shutil.copyfileobj(file.file, buffer)), which copies nothing.
WrittenBytesFromDrainedStream(content) == Empty

\* What buffer.write(content) leaves in the file: reading the request body into
\* `content` has drained the upload stream, and the handler writes `content`.
WrittenBytes(content) == content

\* POST /api/files/upload
upload_file(filename, content) ==
    LET rejection == UploadRejection(filename, content)
        file_id == nFiles + 1
        file_path == UploadPath(file_id, filename)
    IN
    /\ IF rejection # None
       THEN /\ resp' = rejection[1]
            /\ UNCHANGED fileVars
       ELSE /\ nFiles < MaxFiles
            /\ nFiles' = file_id
            /\ upload_dirs' = upload_dirs \cup {file_id}
            /\ upload_fs' = Put(upload_fs, file_path, WrittenBytes(content))
            /\ uploaded_files' = Put(uploaded_files, file_id, file_path)
            /\ resp' = Ok("upload_file", [filename |-> filename, content |-> content],
                          [file_id |-> file_id, filename |-> filename,
                           size |-> ByteLen(content),
                           message |-> "File uploaded successfully"])
    /\ UNCHANGED << taskVars, storeVars >>

\* DELETE /api/files/{file_id}
cleanup_uploaded_file(file_id) ==
    /\ IF file_id \notin DOMAIN uploaded_files
       THEN /\ resp' = HTTPException("cleanup_uploaded_file", file_id, 404, "File not found")
            /\ UNCHANGED fileVars
       ELSE LET file_path == uploaded_files[file_id] IN
            /\ IF UploadExists(file_path)
               THEN \* shutil.rmtree(file_path.parent)
                    /\ upload_dirs' = upload_dirs \ {file_path.file_id}
                    /\ upload_fs' =
                         [p \in {q \in DOMAIN upload_fs : q.file_id # file_path.file_id}
                            |-> upload_fs[p]]
               ELSE UNCHANGED << upload_dirs, upload_fs >>
            /\ uploaded_files' = Del(uploaded_files, file_id)
            /\ resp' = Ok("cleanup_uploaded_file", file_id,
                          [status |-> "cleaned", message |-> file_id])
            /\ UNCHANGED nFiles
    /\ UNCHANGED << taskVars, storeVars >>

\* Something outside the server removes an uploaded file from the disk.
RemoveUploadedFile(path) ==
    /\ path \in DOMAIN upload_fs
    /\ upload_fs' = Del(upload_fs, path)
    /\ resp' = NoResponse
    /\ UNCHANGED << uploaded_files, upload_dirs, nFiles, taskVars, storeVars >>

(***************************************************************************)
(* The engine (pdf2zh_next.high_level.do_translate_async_stream) and the   *)
(* storage endpoint are outside the server: what they emit and answer is   *)
(* drawn from the sets below.                                              *)
(***************************************************************************)
ProgressTypes == {"progress_start", "progress_update", "progress_end"}

ProgressEvents ==
    { [type |-> "progress_start", overall_progress |-> 42, stage |-> "Rendering",
       part_index |-> 2, total_parts |-> 3],
      [type |-> "progress_end", stage |-> "Rendering"],
      [type |-> "progress_update", overall_progress |-> 42] }

ErrorEvents ==
    { [type |-> "error", error |-> "engine crashed"],
      [type |-> "error"] }

ArtA == [head |-> PdfMagic \o <<"A">>, pad |-> 0]
ArtB == [head |-> PdfMagic \o <<"B">>, pad |-> 0]

\* What one run of the engine leaves behind: the artifacts it wrote (None: the
\* kind was not produced) and the elapsed time, in tenths of a second.
EngineOutputs ==
    { [mono |-> Some(ArtA), dual |-> Some(ArtA), total_seconds |-> 35],
      [mono |-> None, dual |-> Some(ArtB), total_seconds |-> 12] }

ArtifactPath(task_id, kind) == [task_id |-> task_id, kind |-> kind]

\* babeldoc's TranslateResult of the finish event
TranslateResult(task_id, out) ==
    [mono_pdf_path |-> IF out.mono = None THEN None ELSE Some(ArtifactPath(task_id, "mono")),
     dual_pdf_path |-> IF out.dual = None THEN None ELSE Some(ArtifactPath(task_id, "dual")),
     total_seconds |-> out.total_seconds]

FinishEvent(task_id, out) ==
    [type |-> "finish", translate_result |-> TranslateResult(task_id, out)]

\* The files of pdf2zh_files/<task_id> once the engine has written `out`.
WrittenFiles(task_id, out) ==
    [p \in {ArtifactPath(task_id, k) : k \in {k \in {"mono", "dual"} : out[k] # None}}
       |-> out[p.kind][1]]

EngineFailures == {"boom", ""}

\* The data of a presigned-url answer with status 200 and code 0.
PresignedAnswers ==
    { [key |-> "k1", access_url |-> "u1"],
      [key |-> "k2", access_url |-> "u2"] }

(***************************************************************************)
(* Object storage client (storage.py).                                     *)
(***************************************************************************)
\* ObjectStorageClient._calculate_file_hash: SHA-256 of the content, taken as
\* collision free; reading the file in 4096-byte blocks changes nothing.
FileHash(content) == [sha256 |-> content]

\* Variant: upload_to_storage without the lookup of lines 160-162.
CacheLookupNever(cache, content) ==
    IF ~storage_enabled THEN "disabled" ELSE "miss"

\* Variant: upload_to_storage without the test of config.enabled (lines
\* 152-154).
CacheLookupIgnoringSwitch(cache, content) ==
    IF FileHash(content) \in DOMAIN cache THEN "hit" ELSE "miss"

\* upload_to_storage, up to its first suspension: "disabled" (returns None),
\* "hit" (returns the cached record) or "miss" (goes on to the POST).
CacheLookup(cache, content) ==
    IF ~storage_enabled THEN "disabled"
    ELSE IF FileHash(content) \in DOMAIN cache THEN "hit"
    ELSE "miss"

\* The record upload_pdf_with_hash returns (the two time stamps left out).
UploadRecord(content, presigned) ==
    [file_hash |-> FileHash(content),
     storage_key |-> presigned.key,
     access_url |-> presigned.access_url]

(***************************************************************************)
(* Task orchestrator: _translation_task.                                   *)
(***************************************************************************)
\* Variant: the entry starts with the status of the start response.
InitialEntryStarted ==
    [status |-> "started", progress |-> 0, stage |-> "Initializing",
     error |-> None, result |-> None]

InitialEntry ==
    [status |-> "running", progress |-> 0, stage |-> "Initializing",
     error |-> None, result |-> None]

NoLocals == [result |-> None, storage_results |-> <<>>, kind |-> "", presigned |-> None]

Suspended == {"stream", "post", "put"}
Ended == {"done", "crashed"}

\* str(KeyError(key))
KeyErrorStr(key) == "'" \o key \o "'"

\* Variant: the coroutine without its finally clause.
FinallyMissing(task_id) == active_tasks' = active_tasks

\* The finally clause: if task_id in active_tasks: del active_tasks[task_id]
Finally(task_id) == active_tasks' = active_tasks \ {task_id}

\* Variant: every entry of the registry is one shared dict (the initial entry
\* kept in a module-level constant and stored without a copy), so that an
\* update through one task_id shows in all.
EndWithSharedEntry(task_id, fields) ==
    /\ IF task_id \in DOMAIN task_results
       THEN /\ task_results' =
                 [u \in DOMAIN task_results |-> Update(task_results[u], fields)]
            /\ pc' = Put(pc, task_id, "done")
       ELSE /\ UNCHANGED task_results
            /\ pc' = Put(pc, task_id, "crashed")
    /\ locals' = Put(locals, task_id, NoLocals)
    /\ Finally(task_id)

\* Variant: the except clauses and the last statement of a branch assign the
\* entry (task_results[task_id] = {**task_results.get(task_id, {}), ...}), so
\* that the write creates an entry that is missing.
EndWithAssignment(task_id, fields) ==
    /\ task_results' =
         Put(task_results, task_id,
             IF task_id \in DOMAIN task_results
             THEN Update(task_results[task_id], fields)
             ELSE fields)
    /\ pc' = Put(pc, task_id, "done")
    /\ locals' = Put(locals, task_id, NoLocals)
    /\ Finally(task_id)

\* A write task_results[task_id].update(fields) made by an except clause or
\* as the last statement of a branch, after which the coroutine ends.  With
\* the entry gone the write raises KeyError out of the coroutine.
EndWith(task_id, fields) ==
    /\ IF task_id \in DOMAIN task_results
       THEN /\ task_results' =
                 Put(task_results, task_id, Update(task_results[task_id], fields))
            /\ pc' = Put(pc, task_id, "done")
       ELSE /\ UNCHANGED task_results
            /\ pc' = Put(pc, task_id, "crashed")
    /\ locals' = Put(locals, task_id, NoLocals)
    /\ Finally(task_id)

\* Variant: the except clause of line 676 records a fixed text in place of
\* str(e).
FailWithoutMessage(task_id, message) ==
    EndWith(task_id, [status |-> "error", error |-> Some("Translation failed")])

\* Variant: the except clause of line 676 awaits a cleanup of the engine
\* after it has written the status, so the coroutine is suspended, still
\* active, with the error status in the registry.
FailBeforeCleanup(task_id, message) ==
    /\ task_results' =
         IF task_id \in DOMAIN task_results
         THEN Put(task_results, task_id,
                  Update(task_results[task_id],
                         [status |-> "error", error |-> Some(message)]))
         ELSE task_results
    /\ UNCHANGED << pc, locals, active_tasks >>

\* Variant: the except clause of line 676 writes the status and leaves the
\* error field as it was.
FailStatusOnly(task_id, message) ==
    EndWith(task_id, [status |-> "error"])

\* except Exception as e
Fail(task_id, message) ==
    EndWith(task_id, [status |-> "error", error |-> Some(message)])

\* Variant: the CancelledError clause sets the status alone.
OnCancelledNoMessage(task_id) ==
    EndWith(task_id, [status |-> "cancelled"])

\* Variant: the CancelledError clause also resets the progress.
OnCancelledResetProgress(task_id) ==
    EndWith(task_id, [status |-> "cancelled", progress |-> 0,
                      error |-> Some("Translation was cancelled")])

\* except asyncio.CancelledError
OnCancelled(task_id) ==
    EndWith(task_id, [status |-> "cancelled", error |-> Some("Translation was cancelled")])

\* Variant: the completed update leaves the progress where the last progress
\* event put it.
CompleteKeepingProgress(task_id, result, storage_results) ==
    EndWith(task_id,
            [status |-> "completed",
             stage |-> "Translation complete",
             result |-> Some([mono_pdf_path |-> result.mono_pdf_path,
                              dual_pdf_path |-> result.dual_pdf_path,
                              total_seconds |-> result.total_seconds,
                              storage |-> storage_results])])

\* lines 652-665: the completed update, then break
Complete(task_id, result, storage_results) ==
    EndWith(task_id,
            [status |-> "completed", progress |-> 100,
             stage |-> "Translation complete",
             result |-> Some([mono_pdf_path |-> result.mono_pdf_path,
                              dual_pdf_path |-> result.dual_pdf_path,
                              total_seconds |-> result.total_seconds,
                              storage |-> storage_results])])

\* Variant: the finish branch without the try/except of lines 624-650, so
\* that an upload's exception reaches the except clause of line 676.
UploadFailedUncaught(task_id, result, storage_results) ==
    Fail(task_id, "Failed to upload file")

\* lines 648-650: an exception of upload_to_storage is logged and the branch
\* goes on to the completed update with the storage results gathered so far.
UploadFailed(task_id, result, storage_results) ==
    Complete(task_id, result, storage_results)

\* The coroutine waits for the answer to the presigned-url POST for `kind`.
AwaitPost(task_id, result, storage_results, kind) ==
    /\ pc' = Put(pc, task_id, "post")
    /\ locals' = Put(locals, task_id,
                     [result |-> result, storage_results |-> storage_results,
                      kind |-> kind, presigned |-> None])
    /\ UNCHANGED << task_results, active_tasks >>

\* if result.<kind>_pdf_path and Path(result.<kind>_pdf_path).exists()
HasArtifact(fs, result, kind) ==
    LET path == IF kind = "mono" THEN result.mono_pdf_path ELSE result.dual_pdf_path IN
    /\ path # None
    /\ path[1] \in DOMAIN fs

ArtifactContent(fs, result, kind) ==
    fs[(IF kind = "mono" THEN result.mono_pdf_path ELSE result.dual_pdf_path)[1]]

\* The three fields of an upload record the finish branch keeps.
StorageResult(record) ==
    [access_url |-> record.access_url, file_hash |-> record.file_hash,
     storage_key |-> record.storage_key]

\* lines 638-665: the dual upload and what follows it, run until the
\* coroutine suspends or ends.
FromDual(task_id, fs, cache, result, storage_results) ==
    IF ~HasArtifact(fs, result, "dual")
    THEN Complete(task_id, result, storage_results) /\ UNCHANGED net
    ELSE LET content == ArtifactContent(fs, result, "dual")
             found == CacheLookup(cache, content)
         IN
         CASE found = "disabled" ->
                Complete(task_id, result, storage_results) /\ UNCHANGED net
           [] found = "hit" ->
                /\ Complete(task_id, result,
                            Put(storage_results, "dual",
                                StorageResult(cache[FileHash(content)])))
                /\ UNCHANGED net
           [] found = "miss" ->
                /\ AwaitPost(task_id, result, storage_results, "dual")
                /\ net' = [net EXCEPT !.post = @ \cup {result.dual_pdf_path[1]}]

\* lines 624-665: the finish branch from the mono upload on.
FromMono(task_id, fs, cache, result, storage_results) ==
    IF ~HasArtifact(fs, result, "mono")
    THEN FromDual(task_id, fs, cache, result, storage_results)
    ELSE LET content == ArtifactContent(fs, result, "mono")
             found == CacheLookup(cache, content)
         IN
         CASE found = "disabled" ->
                FromDual(task_id, fs, cache, result, storage_results)
           [] found = "hit" ->
                FromDual(task_id, fs, cache, result,
                         Put(storage_results, "mono",
                             StorageResult(cache[FileHash(content)])))
           [] found = "miss" ->
                /\ AwaitPost(task_id, result, storage_results, "mono")
                /\ net' = [net EXCEPT !.post = @ \cup {result.mono_pdf_path[1]}]

\* The coroutine's first run: up to the first wait for an engine event.
TaskBegin(task_id) ==
    /\ pc[task_id] = "spawned"
    /\ task_results' = Put(task_results, task_id, InitialEntry)
    /\ pc' = Put(pc, task_id, "stream")
    /\ resp' = NoResponse
    /\ UNCHANGED << fileVars, storeVars, active_tasks, nTasks, cancel_requested,
                    last_event, locals, output_dirs, output_fs >>

\* The engine can answer only a coroutine that waits for it and that has no
\* cancellation pending: Task.cancel() makes the coroutine's next run raise
\* CancelledError at its await, and the engine passes it on.
Running(task_id, at) ==
    /\ pc[task_id] = at
    /\ ~cancel_requested[task_id]

\* Variant: the progress branch assigns the fields one statement at a time
\* (task_results[task_id]["progress"] = event["overall_progress"], then the
\* stage, ...), so that an event without stage has its progress applied
\* before the KeyError.
OnProgressFieldByField(task_id, event) ==
    /\ Running(task_id, "stream")
    /\ last_event' = Put(last_event, task_id, Some(event))
    /\ IF task_id \notin DOMAIN task_results
       THEN Fail(task_id, KeyErrorStr(ToString(task_id)))
       ELSE IF "overall_progress" \notin DOMAIN event
       THEN Fail(task_id, KeyErrorStr("overall_progress"))
       ELSE IF "stage" \notin DOMAIN event
       THEN EndWith(task_id, [progress |-> event.overall_progress,
                              status |-> "error",
                              error |-> Some(KeyErrorStr("stage"))])
       ELSE /\ task_results' =
                 Put(task_results, task_id,
                     Update(task_results[task_id],
                            [progress |-> event.overall_progress,
                             stage |-> event.stage,
                             part_index |->
                                 IF "part_index" \in DOMAIN event THEN event.part_index ELSE 1,
                             total_parts |->
                                 IF "total_parts" \in DOMAIN event THEN event.total_parts ELSE 1,
                             stage_current |->
                                 IF "stage_current" \in DOMAIN event THEN event.stage_current ELSE 1,
                             stage_total |->
                                 IF "stage_total" \in DOMAIN event THEN event.stage_total ELSE 1]))
            /\ UNCHANGED << pc, locals, active_tasks >>
    /\ resp' = NoResponse
    /\ UNCHANGED << fileVars, storeVars, nTasks, cancel_requested, output_dirs,
                    output_fs >>

\* lines 610-620
OnProgress(task_id, event) ==
    /\ Running(task_id, "stream")
    /\ last_event' = Put(last_event, task_id, Some(event))
    /\ IF task_id \notin DOMAIN task_results
       THEN Fail(task_id, KeyErrorStr(ToString(task_id)))
       ELSE IF "overall_progress" \notin DOMAIN event
       THEN Fail(task_id, KeyErrorStr("overall_progress"))
       ELSE IF "stage" \notin DOMAIN event
       THEN Fail(task_id, KeyErrorStr("stage"))
       ELSE /\ task_results' =
                 Put(task_results, task_id,
                     Update(task_results[task_id],
                            [progress |-> event.overall_progress,
                             stage |-> event.stage,
                             part_index |->
                                 IF "part_index" \in DOMAIN event THEN event.part_index ELSE 1,
                             total_parts |->
                                 IF "total_parts" \in DOMAIN event THEN event.total_parts ELSE 1,
                             stage_current |->
                                 IF "stage_current" \in DOMAIN event THEN event.stage_current ELSE 1,
                             stage_total |->
                                 IF "stage_total" \in DOMAIN event THEN event.stage_total ELSE 1]))
            /\ UNCHANGED << pc, locals, active_tasks >>
    /\ resp' = NoResponse
    /\ UNCHANGED << fileVars, storeVars, nTasks, cancel_requested, output_dirs,
                    output_fs >>

\* lines 621-665, up to the first suspension.  The engine has written its
\* artifacts before it emits finish.
OnFinish(task_id, out) ==
    LET event == FinishEvent(task_id, out)
        fs == WrittenFiles(task_id, out) @@ output_fs
    IN
    /\ Running(task_id, "stream")
    /\ task_id \in output_dirs
    /\ last_event' = Put(last_event, task_id, Some(event))
    /\ output_fs' = fs
    /\ FromMono(task_id, fs, storage_cache, event.translate_result, <<>>)
    /\ resp' = NoResponse
    /\ UNCHANGED << fileVars, storage_enabled, storage_cache, nTasks,
                    cancel_requested, output_dirs >>

\* Variant: the error branch without its break; the loop waits for the next
\* event.
OnErrorNoBreak(task_id, event) ==
    /\ Running(task_id, "stream")
    /\ task_id \in DOMAIN task_results
    /\ last_event' = Put(last_event, task_id, Some(event))
    /\ task_results' =
         Put(task_results, task_id,
             Update(task_results[task_id],
                    [status |-> "error",
                     error |-> Some(IF "error" \in DOMAIN event THEN event.error
                                    ELSE "Unknown error")]))
    /\ resp' = NoResponse
    /\ UNCHANGED << fileVars, storeVars, active_tasks, nTasks, pc, cancel_requested,
                    locals, output_dirs, output_fs >>

\* lines 666-669
OnError(task_id, event) ==
    /\ Running(task_id, "stream")
    /\ last_event' = Put(last_event, task_id, Some(event))
    /\ EndWith(task_id,
               [status |-> "error",
                error |-> Some(IF "error" \in DOMAIN event THEN event.error
                               ELSE "Unknown error")])
    /\ resp' = NoResponse
    /\ UNCHANGED << fileVars, storeVars, nTasks, cancel_requested, output_dirs,
                    output_fs >>

\* The stream raises: lines 676-678.
OnStreamRaise(task_id, message) ==
    /\ Running(task_id, "stream")
    /\ Fail(task_id, message)
    /\ resp' = NoResponse
    /\ UNCHANGED << fileVars, storeVars, nTasks, cancel_requested, last_event,
                    output_dirs, output_fs >>

\* The stream ends with neither finish nor error: line 671, then finally.
OnStreamEnd(task_id) ==
    /\ Running(task_id, "stream")
    /\ pc' = Put(pc, task_id, "done")
    /\ Finally(task_id)
    /\ resp' = NoResponse
    /\ UNCHANGED << fileVars, storeVars, task_results, nTasks, cancel_requested,
                    last_event, locals, output_dirs, output_fs >>

\* get_presigned_url answers.  A failure is caught at line 648 and the branch
\* goes on to the completed update; a success issues the PUT.
OnPostAnswer(task_id, answer) ==
    LET l == locals[task_id] IN
    /\ Running(task_id, "post")
    /\ IF answer = None
       THEN /\ UploadFailed(task_id, l.result, l.storage_results)
            /\ UNCHANGED net
       ELSE /\ pc' = Put(pc, task_id, "put")
            /\ locals' = Put(locals, task_id, [l EXCEPT !.presigned = answer])
            /\ net' = [net EXCEPT !.put = @ \cup {ArtifactPath(task_id, l.kind)}]
            /\ UNCHANGED << task_results, active_tasks >>
    /\ resp' = NoResponse
    /\ UNCHANGED << fileVars, storage_enabled, storage_cache, nTasks,
                    cancel_requested, last_event, output_dirs, output_fs >>

\* Variant: upload_to_storage writes the cache entry from the credential
\* answer before the PUT has been answered.
OnPutAnswerCachingFirst(task_id, ok) ==
    LET l == locals[task_id]
        content == ArtifactContent(output_fs, l.result, l.kind)
        record == UploadRecord(content, l.presigned[1])
        cache == Put(storage_cache, record.file_hash, record)
        storage_results == Put(l.storage_results, l.kind, StorageResult(record))
    IN
    /\ Running(task_id, "put")
    /\ storage_cache' = cache
    /\ IF ~ok
       THEN /\ UploadFailed(task_id, l.result, l.storage_results)
            /\ UNCHANGED net
       ELSE IF l.kind = "mono"
       THEN FromDual(task_id, output_fs, cache, l.result, storage_results)
       ELSE Complete(task_id, l.result, storage_results) /\ UNCHANGED net
    /\ resp' = NoResponse
    /\ UNCHANGED << fileVars, storage_enabled, nTasks, cancel_requested,
                    last_event, output_dirs, output_fs >>

\* The PUT answers.  A success caches the record (upload_to_storage, lines
\* 165-170) and the finish branch goes on with the next artifact.
OnPutAnswer(task_id, ok) ==
    LET l == locals[task_id]
        content == ArtifactContent(output_fs, l.result, l.kind)
        record == UploadRecord(content, l.presigned[1])
        cache == Put(storage_cache, record.file_hash, record)
        storage_results == Put(l.storage_results, l.kind, StorageResult(record))
    IN
    /\ Running(task_id, "put")
    /\ IF ~ok
       THEN /\ UploadFailed(task_id, l.result, l.storage_results)
            /\ UNCHANGED << net, storage_cache >>
       ELSE /\ storage_cache' = cache
            /\ IF l.kind = "mono"
               THEN FromDual(task_id, output_fs, cache, l.result, storage_results)
               ELSE Complete(task_id, l.result, storage_results) /\ UNCHANGED net
    /\ resp' = NoResponse
    /\ UNCHANGED << fileVars, storage_enabled, nTasks, cancel_requested,
                    last_event, output_dirs, output_fs >>

\* The pending cancellation is delivered: lines 673-675, then finally.
OnCancelDelivered(task_id) ==
    /\ pc[task_id] \in Suspended
    /\ cancel_requested[task_id]
    /\ OnCancelled(task_id)
    /\ resp' = NoResponse
    /\ UNCHANGED << fileVars, storeVars, nTasks, cancel_requested, last_event,
                    output_dirs, output_fs >>

\* An engine that does not react to the cancellation: Task.cancel() raises
\* CancelledError at the await inside do_translate_async_stream, the engine
\* catches it and keeps its stream open.  The request is used up and the
\* coroutine goes on waiting for the engine's next event.
OnCancelSwallowed(task_id) ==
    /\ pc[task_id] = "stream"
    /\ cancel_requested[task_id]
    /\ cancel_requested' = Put(cancel_requested, task_id, FALSE)
    /\ resp' = NoResponse
    /\ UNCHANGED << fileVars, storeVars, task_results, active_tasks, nTasks, pc,
                    last_event, locals, output_dirs, output_fs >>

(***************************************************************************)
(* Request handlers on tasks.                                              *)
(*                                                                         *)
(* A task_id reaches a client in the response of translate_with_file_id.   *)
(* asyncio.create_task has put the coroutine's first run on the loop's     *)
(* FIFO ready queue before that response is written, so the first run      *)
(* precedes the handler of any request that names the task_id.             *)
(***************************************************************************)
Nameable(task_id) == task_id \in TaskIds => pc[task_id] # "spawned"

\* Variant: the handler without its 'except HTTPException: raise' clause
\* (lines 464-466), so that 'except Exception' turns every HTTPException it
\* raised into a 500.
translate_with_file_id_no_reraise(file_id, settings_valid) ==
    LET task_id == nTasks + 1
        arg == [file_id |-> file_id, settings_valid |-> settings_valid]
    IN
    /\ IF file_id \notin DOMAIN uploaded_files
       THEN /\ resp' = HTTPException("translate_with_file_id", arg, 500,
                                     "404: File not found. Please upload the file first.")
            /\ UNCHANGED taskVars
       ELSE IF ~UploadExists(uploaded_files[file_id])
       THEN /\ resp' = HTTPException("translate_with_file_id", arg, 500,
                                     "404: File no longer exists on server")
            /\ UNCHANGED taskVars
       ELSE /\ nTasks < MaxTasks
            /\ nTasks' = task_id
            /\ output_dirs' = output_dirs \cup {task_id}
            /\ IF ~settings_valid
               THEN /\ resp' = HTTPException("translate_with_file_id", arg, 500,
                                             "400: Invalid settings")
                    /\ UNCHANGED << task_results, active_tasks, pc, cancel_requested,
                                    last_event, locals, output_fs >>
               ELSE /\ pc' = Put(pc, task_id, "spawned")
                    /\ active_tasks' = active_tasks \cup {task_id}
                    /\ resp' = Ok("translate_with_file_id", arg,
                                  [task_id |-> task_id, status |-> "started"])
                    /\ UNCHANGED << task_results, cancel_requested, last_event,
                                    locals, output_fs >>
    /\ UNCHANGED << fileVars, storeVars >>

\* POST /api/translate.  settings_valid: whether validate_settings accepts
\* the configuration (_build_settings_from_request, lines 595-600).
translate_with_file_id(file_id, settings_valid) ==
    LET task_id == nTasks + 1
        arg == [file_id |-> file_id, settings_valid |-> settings_valid]
    IN
    /\ IF file_id \notin DOMAIN uploaded_files
       THEN /\ resp' = HTTPException("translate_with_file_id", arg, 404,
                                     "File not found. Please upload the file first.")
            /\ UNCHANGED taskVars
       ELSE IF ~UploadExists(uploaded_files[file_id])
       THEN /\ resp' = HTTPException("translate_with_file_id", arg, 404,
                                     "File no longer exists on server")
            /\ UNCHANGED taskVars
       ELSE /\ nTasks < MaxTasks
            /\ nTasks' = task_id
            /\ output_dirs' = output_dirs \cup {task_id}
            /\ IF ~settings_valid
               THEN /\ resp' = HTTPException("translate_with_file_id", arg, 400,
                                             "Invalid settings")
                    /\ UNCHANGED << task_results, active_tasks, pc, cancel_requested,
                                    last_event, locals, output_fs >>
               ELSE /\ pc' = Put(pc, task_id, "spawned")
                    /\ active_tasks' = active_tasks \cup {task_id}
                    /\ resp' = Ok("translate_with_file_id", arg,
                                  [task_id |-> task_id, status |-> "started"])
                    /\ UNCHANGED << task_results, cancel_requested, last_event,
                                    locals, output_fs >>
    /\ UNCHANGED << fileVars, storeVars >>

\* What a poll answers: lines 688-691.
StatusResponse(task_id) ==
    IF task_id \notin DOMAIN task_results
    THEN HTTPException("get_task_status", task_id, 404, "Task not found")
    ELSE Ok("get_task_status", task_id, task_results[task_id])

\* GET /api/task/{task_id}/status
get_task_status(task_id) ==
    /\ Nameable(task_id)
    /\ resp' = StatusResponse(task_id)
    /\ UNCHANGED << fileVars, taskVars, storeVars >>

\* asyncio.Task.cancel() on a task that has not ended
TaskCancel(task_id) ==
    cancel_requested' =
        IF pc[task_id] \in Ended THEN cancel_requested
        ELSE Put(cancel_requested, task_id, TRUE)

\* Variant: the second branch of cancel_task without its status test.
CancelInactiveAlways(entry) == Update(entry, [status |-> "cancelled"])

\* Variant: the second branch of cancel_task writes the message the
\* CancelledError clause writes.
CancelInactiveWithMessage(entry) ==
    IF entry.status = "running"
    THEN Update(entry, [status |-> "cancelled",
                        error |-> Some("Translation was cancelled")])
    ELSE entry

\* lines 702-703: the entry of a task that is no longer active
CancelInactive(entry) ==
    IF entry.status = "running" THEN Update(entry, [status |-> "cancelled"])
    ELSE entry

\* Variant: a task that is neither active nor running is answered 404.
cancel_task_running_only(task_id) ==
    /\ Nameable(task_id)
    /\ IF task_id \in active_tasks
       THEN /\ TaskCancel(task_id)
            /\ resp' = Ok("cancel_task", task_id, [status |-> "cancelled"])
            /\ UNCHANGED task_results
       ELSE IF task_id \in DOMAIN task_results /\ task_results[task_id].status = "running"
       THEN /\ task_results' =
                 Put(task_results, task_id, CancelInactive(task_results[task_id]))
            /\ resp' = Ok("cancel_task", task_id, [status |-> "cancelled"])
            /\ UNCHANGED cancel_requested
       ELSE /\ resp' = HTTPException("cancel_task", task_id, 404, "Task not found")
            /\ UNCHANGED << task_results, cancel_requested >>
    /\ UNCHANGED << fileVars, storeVars, active_tasks, nTasks, pc, last_event,
                    locals, output_dirs, output_fs >>

\* POST /api/task/{task_id}/cancel
cancel_task(task_id) ==
    /\ Nameable(task_id)
    /\ IF task_id \in active_tasks
       THEN /\ TaskCancel(task_id)
            /\ resp' = Ok("cancel_task", task_id, [status |-> "cancelled"])
            /\ UNCHANGED task_results
       ELSE IF task_id \in DOMAIN task_results
       THEN /\ task_results' =
                 Put(task_results, task_id, CancelInactive(task_results[task_id]))
            /\ resp' = Ok("cancel_task", task_id, [status |-> "cancelled"])
            /\ UNCHANGED cancel_requested
       ELSE /\ resp' = HTTPException("cancel_task", task_id, 404, "Task not found")
            /\ UNCHANGED << task_results, cancel_requested >>
    /\ UNCHANGED << fileVars, storeVars, active_tasks, nTasks, pc, last_event,
                    locals, output_dirs, output_fs >>

\* What shutil.rmtree(Path("pdf2zh_files") / task_id) removes besides the
\* task's output directory (lines 746-748): for the name "uploads" the path
\* is the directory that holds every upload directory.
RemoveTree(task_id) ==
    IF task_id = UploadsDir
    THEN upload_dirs' = {} /\ upload_fs' = <<>>
    ELSE UNCHANGED << upload_dirs, upload_fs >>

\* Variant: a task_id that is neither registered nor active is answered 404,
\* as cleanup_uploaded_file answers an unknown file_id.
cleanup_task_known_only(task_id) ==
    /\ Nameable(task_id)
    /\ IF task_id \notin active_tasks /\ task_id \notin DOMAIN task_results
       THEN /\ resp' = HTTPException("cleanup_task", task_id, 404, "Task not found")
            /\ UNCHANGED << cancel_requested, active_tasks, task_results,
                            output_dirs, output_fs, upload_dirs, upload_fs >>
       ELSE /\ IF task_id \in active_tasks
               THEN /\ TaskCancel(task_id)
                    /\ active_tasks' = active_tasks \ {task_id}
               ELSE UNCHANGED << cancel_requested, active_tasks >>
            /\ task_results' =
                 IF task_id \in DOMAIN task_results THEN Del(task_results, task_id)
                 ELSE task_results
            /\ output_dirs' = output_dirs \ {task_id}
            /\ output_fs' =
                 [p \in {q \in DOMAIN output_fs : q.task_id # task_id} |-> output_fs[p]]
            /\ RemoveTree(task_id)
            /\ resp' = Ok("cleanup_task", task_id, [status |-> "cleaned"])
    /\ UNCHANGED << uploaded_files, nFiles, storeVars, nTasks, pc, last_event, locals >>

\* Variant: the release cancels an active task and leaves its removal from
\* active_tasks to the coroutine's finally clause (no line 739).
cleanup_task_keeps_active(task_id) ==
    /\ Nameable(task_id)
    /\ IF task_id \in active_tasks
       THEN TaskCancel(task_id)
       ELSE UNCHANGED cancel_requested
    /\ task_results' =
         IF task_id \in DOMAIN task_results THEN Del(task_results, task_id)
         ELSE task_results
    /\ output_dirs' = output_dirs \ {task_id}
    /\ output_fs' = [p \in {q \in DOMAIN output_fs : q.task_id # task_id} |-> output_fs[p]]
    /\ RemoveTree(task_id)
    /\ resp' = Ok("cleanup_task", task_id, [status |-> "cleaned"])
    /\ UNCHANGED << uploaded_files, nFiles, storeVars, active_tasks, nTasks, pc,
                    last_event, locals >>

\* DELETE /api/task/{task_id}
cleanup_task(task_id) ==
    /\ Nameable(task_id)
    /\ IF task_id \in active_tasks
       THEN /\ TaskCancel(task_id)
            /\ active_tasks' = active_tasks \ {task_id}
       ELSE UNCHANGED << cancel_requested, active_tasks >>
    /\ task_results' =
         IF task_id \in DOMAIN task_results THEN Del(task_results, task_id)
         ELSE task_results
    \* shutil.rmtree(output_dir)
    /\ output_dirs' = output_dirs \ {task_id}
    /\ output_fs' = [p \in {q \in DOMAIN output_fs : q.task_id # task_id} |-> output_fs[p]]
    /\ RemoveTree(task_id)
    /\ resp' = Ok("cleanup_task", task_id, [status |-> "cleaned"])
    /\ UNCHANGED << uploaded_files, nFiles, storeVars, nTasks, pc, last_event, locals >>

\* Variant: the handler without the status test of lines 716-717; for a task
\* that has no result yet, result["result"]["mono_pdf_path"] raises TypeError
\* and the request ends as a 500.
download_result_unchecked(task_id, file_type) ==
    LET arg == [task_id |-> task_id, file_type |-> file_type] IN
    /\ Nameable(task_id)
    /\ resp' =
         IF task_id \notin DOMAIN task_results
         THEN HTTPException("download_result", arg, 404, "Task not found")
         ELSE LET result == task_results[task_id] IN
              IF file_type \notin {"mono", "dual"}
              THEN HTTPException("download_result", arg, 400, "Invalid file type")
              ELSE IF result.result = None
              THEN HTTPException("download_result", arg, 500, "Internal Server Error")
              ELSE LET file_path == IF file_type = "mono"
                                    THEN result.result[1].mono_pdf_path
                                    ELSE result.result[1].dual_pdf_path
                   IN
                   IF file_path = None \/ file_path[1] \notin DOMAIN output_fs
                   THEN HTTPException("download_result", arg, 404, "File not found")
                   ELSE Ok("download_result", arg, output_fs[file_path[1]])
    /\ UNCHANGED << fileVars, taskVars, storeVars >>

\* GET /api/task/{task_id}/download/{file_type}
download_result(task_id, file_type) ==
    LET arg == [task_id |-> task_id, file_type |-> file_type] IN
    /\ Nameable(task_id)
    /\ resp' =
         IF task_id \notin DOMAIN task_results
         THEN HTTPException("download_result", arg, 404, "Task not found")
         ELSE LET result == task_results[task_id] IN
              IF result.status # "completed" \/ result.result = None
              THEN HTTPException("download_result", arg, 400, "Translation not completed")
              ELSE IF file_type \notin {"mono", "dual"}
              THEN HTTPException("download_result", arg, 400, "Invalid file type")
              ELSE LET file_path == IF file_type = "mono"
                                    THEN result.result[1].mono_pdf_path
                                    ELSE result.result[1].dual_pdf_path
                   IN
                   IF file_path = None \/ file_path[1] \notin DOMAIN output_fs
                   THEN HTTPException("download_result", arg, 404, "File not found")
                   ELSE Ok("download_result", arg, output_fs[file_path[1]])
    /\ UNCHANGED << fileVars, taskVars, storeVars >>

(***************************************************************************)
(* The system.                                                             *)
(***************************************************************************)
Init ==
    /\ uploaded_files = <<>>
    /\ upload_dirs = {}
    /\ upload_fs = <<>>
    /\ nFiles = 0
    /\ task_results = <<>>
    /\ active_tasks = {}
    /\ nTasks = 0
    /\ pc = [t \in TaskIds |-> "none"]
    /\ cancel_requested = [t \in TaskIds |-> FALSE]
    /\ last_event = [t \in TaskIds |-> None]
    /\ locals = [t \in TaskIds |-> NoLocals]
    /\ output_dirs = {}
    /\ output_fs = <<>>
    /\ storage_enabled \in BOOLEAN
    /\ storage_cache = <<>>
    /\ net = [post |-> {}, put |-> {}]
    /\ resp = NoResponse

FileTypes == {"mono", "dual", "other"}

\* The steps of the background coroutines and the answers they wait for.
Background ==
    \/ \E t \in TaskIds : TaskBegin(t)
    \/ \E t \in TaskIds, event \in ProgressEvents : OnProgress(t, event)
    \/ \E t \in TaskIds, out \in EngineOutputs : OnFinish(t, out)
    \/ \E t \in TaskIds, event \in ErrorEvents : OnError(t, event)
    \/ \E t \in TaskIds, message \in EngineFailures : OnStreamRaise(t, message)
    \/ \E t \in TaskIds : OnStreamEnd(t)
    \/ \E t \in TaskIds, answer \in {None} \cup {Some(a) : a \in PresignedAnswers} :
          OnPostAnswer(t, answer)
    \/ \E t \in TaskIds, ok \in BOOLEAN : OnPutAnswer(t, ok)
    \/ \E t \in TaskIds : OnCancelDelivered(t)

\* Every request, with one task started.
Next ==
    \/ \E filename \in FileNames, content \in Contents : upload_file(filename, content)
    \/ \E file_id \in FileIds : cleanup_uploaded_file(file_id)
    \/ \E path \in DOMAIN upload_fs : RemoveUploadedFile(path)
    \/ \E file_id \in FileIds, valid \in BOOLEAN :
          translate_with_file_id(file_id, valid) /\ nTasks' <= SoloTasks
    \/ \E t \in TaskIds : get_task_status(t)
    \/ \E t \in TaskIds : cancel_task(t)
    \/ \E t \in TaskIds \cup {UploadsDir} : cleanup_task(t)
    \/ \E t \in TaskIds, file_type \in FileTypes : download_result(t, file_type)
    \/ Background

Spec == Init /\ [][Next]_vars

\* Two tasks side by side, started from one accepted upload.
NextPair ==
    \/ upload_file(<<"A", ".", "P", "D", "F">>, Pdf1024)
    \/ \E file_id \in FileIds : translate_with_file_id(file_id, TRUE)
    \/ \E t \in TaskIds : get_task_status(t)
    \/ \E t \in TaskIds : cancel_task(t)
    \/ \E t \in TaskIds : cleanup_task(t)
    \/ Background

SpecPair == Init /\ [][NextPair]_vars

(***************************************************************************)
(* Properties.                                                             *)
(***************************************************************************)
\* One task whose engine may ignore a cancellation.  The event loop runs
\* every coroutine that is ready: the first run of a created task and the
\* resumption of a cancelled one are taken once they are enabled.  Nothing
\* obliges the engine to emit an event or to end its stream.
NextLive ==
    \/ upload_file(<<"A", ".", "P", "D", "F">>, Pdf1024)
    \/ \E file_id \in FileIds :
          translate_with_file_id(file_id, TRUE) /\ nTasks' <= SoloTasks
    \/ \E t \in TaskIds : get_task_status(t)
    \/ \E t \in TaskIds : cancel_task(t)
    \/ \E t \in TaskIds : OnCancelSwallowed(t)
    \/ Background

SpecLive ==
    /\ Init
    /\ [][NextLive]_vars
    /\ \A t \in TaskIds :
          /\ WF_vars(TaskBegin(t))
          /\ WF_vars(OnCancelDelivered(t) \/ OnCancelSwallowed(t))

Terminal == {"completed", "error", "cancelled"}

CancelledMessage == "Translation was cancelled"

Consumed(t, type) == last_event[t] # None /\ last_event[t][1].type = type

\* C1: once a task's registry entry has a terminal status, a poll of the task
\* answers the same snapshot after every further step (engine events, cancel
\* requests, steps of the other task), as long as the task is not released.
C1_TerminalSnapshotFixed ==
    [][\A t \in TaskIds :
          ( /\ t \in DOMAIN task_results
            /\ task_results[t].status \in Terminal
            /\ t \in DOMAIN task_results' )
          => StatusResponse(t)' = StatusResponse(t)]_vars

\* A terminal task has just been polled while the other task is in the
\* middle of its stream.
C1_Witness ==
    \E t \in TaskIds, u \in TaskIds :
        /\ t # u
        /\ resp.op = "get_task_status" /\ resp.arg = t /\ resp.code = 200
        /\ resp.body.status \in Terminal
        /\ pc[u] \in Suspended /\ last_event[u] # None
        /\ cancel_requested[u]

\* A task right after its start response: nothing has come from the engine
\* and nobody has cancelled or released it.
Fresh(t) ==
    /\ pc[t] \in {"spawned", "stream"}
    /\ last_event[t] = None
    /\ ~cancel_requested[t]

C3_CancelTerminalNoop ==
    [][\A t \in TaskIds :
          ( /\ cancel_task(t)
            /\ t \in DOMAIN task_results
            /\ task_results[t].status \in Terminal )
          => /\ resp' = Ok("cancel_task", t, [status |-> "cancelled"])
             /\ task_results' = task_results]_vars

\* A completed task, result in place, has just been sent a cancel request.
C3_Witness ==
    /\ resp.op = "cancel_task" /\ resp.code = 200
    /\ resp.arg \in DOMAIN task_results
    /\ task_results[resp.arg].status = "completed"
    /\ task_results[resp.arg].result # None

\* C4: from the moment Task.cancel() has been called on a running task, no
\* engine event is consumed, the entry changes only by the cancelled update,
\* and once the coroutine has ended a task still registered has status
\* cancelled with the error "Translation was cancelled" (so it is neither
\* completed nor error).
C4_CancelWhileActive ==
    [][\A t \in TaskIds :
          cancel_requested[t]
          => /\ last_event'[t] = last_event[t]
             /\ t \in DOMAIN task_results'
                => /\ t \in DOMAIN task_results
                   /\ \/ task_results'[t] = task_results[t]
                      \/ task_results'[t] =
                           Update(task_results[t],
                                  [status |-> "cancelled",
                                   error |-> Some(CancelledMessage)])
             /\ (pc'[t] \in Ended /\ t \in DOMAIN task_results')
                => /\ task_results'[t].status = "cancelled"
                   /\ task_results'[t].error = Some(CancelledMessage)]_vars

\* A task cancelled during its artifact upload, after the finish event, has
\* ended as cancelled.
C4_Witness ==
    \E t \in TaskIds :
        /\ cancel_requested[t] /\ pc[t] = "done"
        /\ Consumed(t, "finish")
        /\ t \in DOMAIN task_results
        /\ task_results[t].status = "cancelled"
        /\ task_results[t].error = Some(CancelledMessage)

C6_ErrorEventEnds ==
    \A t \in TaskIds :
        (Consumed(t, "error") /\ "error" \in DOMAIN last_event[t][1])
        => /\ pc[t] = "done"
           /\ t \in DOMAIN task_results
              => /\ task_results[t].status = "error"
                 /\ task_results[t].error = Some(last_event[t][1].error)

\* The engine reported "engine crashed" after a progress event.
C6_Witness ==
    \E t \in TaskIds :
        /\ last_event[t] = Some([type |-> "error", error |-> "engine crashed"])
        /\ t \in DOMAIN task_results
        /\ "part_index" \in DOMAIN task_results[t]
        /\ task_results[t].status = "error"
        /\ task_results[t].error = Some("engine crashed")

\* C7: when the presigned-url POST or the PUT of an artifact fails, the task
\* ends in that step with status completed and a result holding the paths the
\* engine reported; it does not become error.
C7_UploadFailureCompletes ==
    [][\A t \in TaskIds :
          ( /\ OnPostAnswer(t, None) \/ OnPutAnswer(t, FALSE)
            /\ t \in DOMAIN task_results )
          => /\ pc'[t] = "done"
             /\ task_results'[t].status = "completed"
             /\ task_results'[t].result # None
             /\ task_results'[t].result[1].mono_pdf_path = locals[t].result.mono_pdf_path
             /\ task_results'[t].result[1].dual_pdf_path = locals[t].result.dual_pdf_path]_vars

\* A completed task whose mono upload was sent and brought back no record.
C7_Witness ==
    \E t \in TaskIds :
        /\ t \in DOMAIN task_results
        /\ task_results[t].status = "completed"
        /\ ArtifactPath(t, "mono") \in net.post
        /\ task_results[t].result[1].mono_pdf_path = Some(ArtifactPath(t, "mono"))
        /\ "mono" \notin DOMAIN task_results[t].result[1].storage

\* The step in which the coroutine of t calls upload_to_storage for `kind`.
CallsUpload(t, kind) ==
    \/ /\ kind = "mono"
       /\ \E out \in EngineOutputs : OnFinish(t, out) /\ out.mono # None
    \/ /\ kind = "dual"
       /\ \E out \in EngineOutputs :
             /\ OnFinish(t, out)
             /\ out.dual # None
             /\ ~(pc'[t] = "post" /\ locals'[t].kind = "mono")
    \/ /\ kind = "dual"
       /\ OnPutAnswer(t, TRUE)
       /\ locals[t].kind = "mono"
       /\ locals[t].result.dual_pdf_path # None

\* The storage results the coroutine of t holds, in its locals or written to
\* the registry.
TaskStorage(t) ==
    IF pc[t] \in {"post", "put"} THEN locals[t].storage_results
    ELSE task_results[t].result[1].storage

\* C8, the part the cache lookup of lines 160-162 guarantees: when
\* upload_to_storage is called for content whose digest the cache holds, the
\* call returns the record the cache holds at that moment, with that digest,
\* and sends neither the POST nor the PUT.
C8_CachedUploadReused ==
    [][\A t \in TaskIds, kind \in {"mono", "dual"} :
          LET path == ArtifactPath(t, kind)
              digest == FileHash(output_fs'[path])
          IN
          ( /\ CallsUpload(t, kind)
            /\ storage_enabled
            /\ digest \in DOMAIN storage_cache' )
          => /\ path \notin net'.post
             /\ path \notin net'.put
             /\ kind \in DOMAIN TaskStorage(t)'
             /\ TaskStorage(t)'[kind] = StorageResult(storage_cache'[digest])
             /\ TaskStorage(t)'[kind].file_hash = digest]_vars

\* A task got its mono record without a POST of its own, from the record the
\* other task's upload had cached.
C8_Witness ==
    \E t \in TaskIds, u \in TaskIds :
        /\ t # u
        /\ t \in DOMAIN task_results
        /\ task_results[t].status = "completed"
        /\ ArtifactPath(t, "mono") \notin net.post
        /\ "mono" \in DOMAIN task_results[t].result[1].storage
        /\ ArtifactPath(u, "mono") \in net.put
        /\ ArtifactPath(u, "dual") \notin net.post

\* The storage records upload_to_storage has returned to the coroutine of u:
\* those it holds in its locals or has written to the registry.
StorageOf(u) ==
    IF pc[u] \in {"post", "put"} THEN locals[u].storage_results
    ELSE IF u \in DOMAIN task_results /\ task_results[u].result # None
    THEN task_results[u].result[1].storage
    ELSE <<>>

\* C8 as stated: when upload_to_storage is called for content for which an
\* earlier call, for any path of any task, has returned a record, the call
\* sends neither the POST nor the PUT and returns a record with the digest and
\* the access_url of the record returned earlier.
C8_LaterUploadSameEntry ==
    [][\A t \in TaskIds, kind \in {"mono", "dual"},
          u \in TaskIds, earlier \in {"mono", "dual"} :
          LET path == ArtifactPath(t, kind)
              digest == FileHash(output_fs'[path])
          IN
          ( /\ CallsUpload(t, kind)
            /\ storage_enabled
            /\ earlier \in DOMAIN StorageOf(u)
            /\ StorageOf(u)[earlier].file_hash = digest )
          => /\ path \notin net'.post
             /\ path \notin net'.put
             /\ kind \in DOMAIN StorageOf(t)'
             /\ StorageOf(t)'[kind].file_hash = digest
             /\ StorageOf(t)'[kind].access_url = StorageOf(u)[earlier].access_url]_vars

\* Two tasks hold records for the same digest with different access_urls: both
\* missed the cache before either upload returned, and the second to return
\* replaced the record of the first.
C8_RaceWitness ==
    \E t \in TaskIds, u \in TaskIds :
        /\ t # u
        /\ "mono" \in DOMAIN StorageOf(t)
        /\ "dual" \in DOMAIN StorageOf(u)
        /\ ArtifactPath(u, "dual") \notin net.post
        /\ StorageOf(t)["mono"].file_hash = StorageOf(u)["dual"].file_hash
        /\ StorageOf(t)["mono"].access_url # StorageOf(u)["dual"].access_url

\* C9: an upload whose content does not begin with %PDF- is rejected (400, or
\* 413 when it is also too large) whatever its filename, returns no file_id
\* and leaves the file registry and the disk as they were.
C9_NonPdfRejected ==
    [][\A filename \in FileNames, content \in Contents :
          (upload_file(filename, content) /\ ~StartsWith(content, PdfMagic))
          => /\ resp'.code \in {400, 413}
             /\ "file_id" \notin DOMAIN resp'.body
             /\ UNCHANGED fileVars]_vars

\* A 10-byte text sent under a .PDF name has just been rejected.
C9_Witness ==
    /\ resp.op = "upload_file" /\ resp.code = 400
    /\ resp.arg.content = Text10
    /\ EndsWith(Lower(resp.arg.filename), DotPdf)
    /\ nFiles = 0

\* C10: an accepted upload returns a file_id that was not registered, the
\* byte length of the content as size, and the file_id then resolves to an
\* existing path that holds exactly the uploaded content.
C10_RegisterThenResolve ==
    [][\A filename \in FileNames, content \in Contents :
          (upload_file(filename, content) /\ resp'.code = 200)
          => LET file_id == resp'.body.file_id IN
             /\ file_id \notin DOMAIN uploaded_files
             /\ file_id > nFiles
             /\ resp'.body.size = ByteLen(content)
             /\ file_id \in DOMAIN uploaded_files'
             /\ uploaded_files'[file_id] \in DOMAIN upload_fs'
             /\ upload_fs'[uploaded_files'[file_id]] = content]_vars

\* The 1,024-byte PDF has just been registered.
C10_Witness ==
    /\ resp.op = "upload_file" /\ resp.code = 200
    /\ resp.body.size = 1024
    /\ resp.body.file_id \in DOMAIN uploaded_files
    /\ upload_fs[uploaded_files[resp.body.file_id]] = Pdf1024

\* C11: a start request that names a file_id the file registry does not hold
\* answers 404, returns no task_id, draws no task id and leaves the task
\* registry, the active set and every coroutine as they were.
C11_UnknownFileStart ==
    [][\A file_id \in FileIds, valid \in BOOLEAN :
          ( /\ translate_with_file_id(file_id, valid)
            /\ file_id \notin DOMAIN uploaded_files )
          => /\ resp'.code = 404
             /\ "task_id" \notin DOMAIN resp'.body
             /\ task_results' = task_results
             /\ active_tasks' = active_tasks
             /\ nTasks' = nTasks
             /\ pc' = pc
             /\ output_dirs' = output_dirs]_vars

\* A start request for a released file_id has just been refused while the
\* task started from it earlier is active.
C11_Witness ==
    /\ resp.op = "translate_with_file_id" /\ resp.code = 404
    /\ resp.body.detail = "File not found. Please upload the file first."
    /\ resp.arg.file_id \notin DOMAIN uploaded_files
    /\ nFiles = 1
    /\ active_tasks # {}

\* C12: a release of a task_id answers 200 in every state (the id never
\* issued, the task running, ended, or released before) and leaves the task
\* registry and the active set without the id and otherwise as they were; so
\* a release of an id that is in neither changes neither.
C12_ReleaseTaskIdempotent ==
    [][\A t \in TaskIds :
          cleanup_task(t)
          => /\ resp' = Ok("cleanup_task", t, [status |-> "cleaned"])
             /\ task_results' = Del(task_results, t)
             /\ active_tasks' = active_tasks \ {t}
             /\ (t \notin DOMAIN task_results /\ t \notin active_tasks)
                => (task_results' = task_results /\ active_tasks' = active_tasks)]_vars

\* A task released while it ran, whose coroutine has since ended, has just
\* been released again.
C12_Witness ==
    /\ resp.op = "cleanup_task" /\ resp.code = 200
    /\ resp.arg \in TaskIds
    /\ pc[resp.arg] = "crashed"
    /\ resp.arg \notin DOMAIN task_results
    /\ resp.arg \notin active_tasks

\* A file_id that was issued and is no longer registered: it was released.
ReleasedFile(file_id) ==
    /\ file_id <= nFiles
    /\ file_id \notin DOMAIN uploaded_files

\* C13 as stated: a release of a file_id that has been released before
\* answers 200 and leaves the file registry unchanged.
C13_ReleaseFileIdempotent ==
    [][\A file_id \in FileIds :
          (cleanup_uploaded_file(file_id) /\ ReleasedFile(file_id))
          => /\ resp'.code = 200
             /\ uploaded_files' = uploaded_files]_vars

\* The second release of a file_id has just been answered 404.
C13_RepeatWitness ==
    /\ resp.op = "cleanup_uploaded_file" /\ resp.code = 404
    /\ ReleasedFile(resp.arg)

\* The task_id a request on a task names.
NamedTask(response) ==
    IF response.op = "download_result" THEN response.arg.task_id ELSE response.arg

\* C14: for a task_id without an entry in the task registry, whether the id
\* was never issued or the task was released, a poll answers 404, and every
\* poll, cancel or download just answered for it was answered 404 with the
\* same detail.
C14_AbsentIsNotFound ==
    \A t \in TaskIds :
        t \notin DOMAIN task_results
        => /\ StatusResponse(t).code = 404
           /\ ( /\ resp.op \in {"get_task_status", "cancel_task", "download_result"}
                /\ NamedTask(resp) = t )
              => /\ resp.code = 404
                 /\ resp.body = [detail |-> "Task not found"]

\* A download from a task that completed and was then released has just
\* been answered 404.
C14_Witness ==
    /\ resp.op = "download_result" /\ resp.code = 404
    /\ resp.arg.file_type = "mono"
    /\ resp.arg.task_id \notin DOMAIN task_results
    /\ pc[resp.arg.task_id] = "done"
    /\ Consumed(resp.arg.task_id, "finish")
    /\ ~cancel_requested[resp.arg.task_id]

\* The exception that applying a progress event raises (lines 613-614), or
\* None when the event carries both fields.
ProgressFailure(event) ==
    IF "overall_progress" \notin DOMAIN event THEN Some(KeyErrorStr("overall_progress"))
    ELSE IF "stage" \notin DOMAIN event THEN Some(KeyErrorStr("stage"))
    ELSE None

C16_EndedIsInactive ==
    \A t \in TaskIds : pc[t] \in Ended => t \notin active_tasks

\* A task released while it ran has ended with the KeyError of its except
\* clause, and the other task is still active.
C16_Witness ==
    \E t \in TaskIds, u \in TaskIds :
        /\ pc[t] = "crashed"
        /\ t \notin DOMAIN task_results
        /\ t \notin active_tasks
        /\ u \in active_tasks
        /\ pc[u] \in Suspended

\* C17: with object storage disabled no POST and no PUT is ever sent, no
\* coroutine waits for one, the digest cache stays empty, and a task that has
\* consumed the finish event and is still registered is completed with an
\* empty storage mapping.
C17_DisabledStorage ==
    ~storage_enabled
    => /\ net = [post |-> {}, put |-> {}]
       /\ storage_cache = <<>>
       /\ \A t \in TaskIds :
             /\ pc[t] \notin {"post", "put"}
             /\ (Consumed(t, "finish") /\ t \in DOMAIN task_results)
                => /\ pc[t] = "done"
                   /\ task_results[t].status = "completed"
                   /\ task_results[t].result # None
                   /\ task_results[t].result[1].storage = <<>>

\* With storage disabled a task whose engine wrote both artifacts is
\* completed with its local paths and no storage record.
C17_Witness ==
    /\ ~storage_enabled
    /\ \E t \in TaskIds :
          /\ t \in DOMAIN task_results
          /\ task_results[t].status = "completed"
          /\ task_results[t].result[1].mono_pdf_path = Some(ArtifactPath(t, "mono"))
          /\ task_results[t].result[1].dual_pdf_path = Some(ArtifactPath(t, "dual"))
          /\ task_results[t].result[1].storage = <<>>

\* A step of the coroutine of t, or a request that names t.
StepOfTask(t) ==
    \/ TaskBegin(t)
    \/ \E event \in ProgressEvents : OnProgress(t, event)
    \/ \E out \in EngineOutputs : OnFinish(t, out)
    \/ \E event \in ErrorEvents : OnError(t, event)
    \/ \E message \in EngineFailures : OnStreamRaise(t, message)
    \/ OnStreamEnd(t)
    \/ \E answer \in {None} \cup {Some(a) : a \in PresignedAnswers} : OnPostAnswer(t, answer)
    \/ \E ok \in BOOLEAN : OnPutAnswer(t, ok)
    \/ OnCancelDelivered(t)
    \/ get_task_status(t)
    \/ cancel_task(t)
    \/ cleanup_task(t)

\* The registry entry of u, or None when u has none.
EntryOf(u) == IF u \in DOMAIN task_results THEN Some(task_results[u]) ELSE None

\* C18: a step of the coroutine of t (an event applied, an engine error, an
\* exception, a cancellation, an upload answer) and a poll, cancel or release
\* of t leave the registry entry of every other task, and whether it is
\* active, as they were.
C18_OtherTasksUntouched ==
    [][\A t \in TaskIds, u \in TaskIds :
          (StepOfTask(t) /\ u # t)
          => /\ EntryOf(u)' = EntryOf(u)
             /\ (u \in active_tasks') = (u \in active_tasks)]_vars

\* One task has ended in error while the other, with progress applied, is
\* running and active.
C18_Witness ==
    \E t \in TaskIds, u \in TaskIds :
        /\ t # u
        /\ pc[t] = "done"
        /\ t \in DOMAIN task_results
        /\ task_results[t].status = "error"
        /\ u \in active_tasks
        /\ u \in DOMAIN task_results
        /\ task_results[u].status = "running"
        /\ task_results[u].progress = 42

\* A file_id that is registered and whose backing file is on the disk.
Usable(file_id) ==
    /\ file_id \in DOMAIN uploaded_files
    /\ uploaded_files[file_id] \in DOMAIN upload_fs

\* C19: a start request is answered 404, returns no task_id and changes
\* nothing of the tasks exactly when its file_id is not registered or its
\* backing file is gone from the disk; for a file_id that is registered with
\* its file in place and settings that validate, the request starts a task.
C19_UsableFile ==
    [][\A file_id \in FileIds, valid \in BOOLEAN :
          translate_with_file_id(file_id, valid)
          => /\ ~Usable(file_id)
                => /\ resp'.code = 404
                   /\ "task_id" \notin DOMAIN resp'.body
                   /\ UNCHANGED taskVars
             /\ Usable(file_id) => resp'.code # 404
             /\ (Usable(file_id) /\ valid)
                => /\ resp'.code = 200
                   /\ resp'.body.task_id \in active_tasks' \ active_tasks
                   /\ pc'[resp'.body.task_id] = "spawned"]_vars

\* A start request for a registered file_id whose file something else
\* removed from the disk has just been refused.
C19_Witness ==
    /\ resp.op = "translate_with_file_id" /\ resp.code = 404
    /\ resp.body.detail = "File no longer exists on server"
    /\ resp.arg.file_id \in DOMAIN uploaded_files
    /\ uploaded_files[resp.arg.file_id] \notin DOMAIN upload_fs
    /\ nTasks = 0

\* C20: a download just answered returned bytes only if the task is
\* completed, the kind is mono or dual and the artifact of that kind is on
\* the disk, and then the bytes of that artifact; it was answered 400
\* 'Translation not completed' if the task is running, error or cancelled,
\* and 404 'Task not found' if the task has no entry.
C20_DownloadRules ==
    resp.op = "download_result"
    => LET t == resp.arg.task_id
           kind == resp.arg.file_type
       IN
       /\ t \notin DOMAIN task_results
          => resp = HTTPException("download_result", resp.arg, 404, "Task not found")
       /\ (t \in DOMAIN task_results
            /\ task_results[t].status \in {"running", "error", "cancelled"})
          => resp = HTTPException("download_result", resp.arg, 400,
                                  "Translation not completed")
       /\ resp.code = 200
          => /\ t \in DOMAIN task_results
             /\ task_results[t].status = "completed"
             /\ kind \in {"mono", "dual"}
             /\ ArtifactPath(t, kind) \in DOMAIN output_fs
             /\ resp.body = output_fs[ArtifactPath(t, kind)]

\* The mono artifact of a completed task has just been downloaded.
C20_Witness ==
    /\ resp.op = "download_result" /\ resp.code = 200
    /\ resp.arg.file_type = "mono"
    /\ resp.body = ArtA
    /\ task_results[resp.arg.task_id].status = "completed"

\* C21: when the engine's stream ends with neither a finish nor an error
\* event, and no cancellation is pending, the coroutine ends the task as a
\* failure: the entry's status is error once the coroutine has ended.
C21_StreamEndIsFailure ==
    [][\A t \in TaskIds :
          OnStreamEnd(t) /\ t \in DOMAIN task_results
              => /\ t \notin active_tasks'
                 /\ task_results'[t].status = "error"]_vars

\* A coroutine that ended at the end of the stream, with its entry still
\* running and no cancellation ever requested.
C21_Witness ==
    \E t \in TaskIds :
        /\ pc[t] = "done"
        /\ ~cancel_requested[t]
        /\ ~Consumed(t, "finish")
        /\ ~Consumed(t, "error")
        /\ t \notin active_tasks
        /\ t \in DOMAIN task_results
        /\ task_results[t].status = "running"
        /\ task_results[t].error = None

\* The digest upload_to_storage is transferring for task t: the call has
\* missed the cache (line 160) and waits for the POST or the PUT of
\* upload_pdf_with_hash (line 165).  None when t has no transfer under way.
Transferring(t) ==
    IF /\ pc[t] \in {"post", "put"}
       /\ HasArtifact(output_fs, locals[t].result, locals[t].kind)
    THEN Some(FileHash(ArtifactContent(output_fs, locals[t].result, locals[t].kind)))
    ELSE None

\* C22: the lookup and the population of the digest cache exclude each other
\* per digest: two tasks never have a POST/PUT transfer of the same digest
\* under way at the same time (the second one waits and reuses the entry).
C22_TransferExclusive ==
    \A t \in TaskIds, u \in TaskIds :
        t # u /\ Transferring(t) # None => Transferring(u) # Transferring(t)

\* Two tasks that both passed the lookup and both sent the PUT of one digest.
C22_Witness ==
    \E t \in TaskIds, u \in TaskIds :
        /\ t # u
        /\ pc[t] = "put" /\ pc[u] = "put"
        /\ Transferring(t) # None
        /\ Transferring(t) = Transferring(u)
        /\ ArtifactPath(t, locals[t].kind) \in net.put
        /\ ArtifactPath(u, locals[u].kind) \in net.put

\* C23: an entry of the digest cache is never removed and never changes: a
\* step that writes the cache for a digest it already holds writes a record
\* with the same access URL and storage key.
C23_CacheEntryStable ==
    [][\A digest \in DOMAIN storage_cache :
          /\ digest \in DOMAIN storage_cache'
          /\ storage_cache'[digest].access_url = storage_cache[digest].access_url
          /\ storage_cache'[digest].storage_key = storage_cache[digest].storage_key]_vars

\* A task holds the record an upload returned for a digest, and the cache now
\* holds another storage key for that digest.
C23_Witness ==
    \E t \in TaskIds, kind \in {"mono", "dual"} :
        /\ kind \in DOMAIN StorageOf(t)
        /\ StorageOf(t)[kind].file_hash \in DOMAIN storage_cache
        /\ storage_cache[StorageOf(t)[kind].file_hash].storage_key
             # StorageOf(t)[kind].storage_key
        /\ storage_cache[StorageOf(t)[kind].file_hash].access_url
             # StorageOf(t)[kind].access_url

\* The upload of task t that waits for an answer fails: the credential POST
\* is refused or the PUT is refused.
UploadFails(t) == OnPostAnswer(t, None) \/ OnPutAnswer(t, FALSE)

\* C24: when the credential POST or the PUT of an upload fails, the upload
\* raises (the task gets no record for that artifact) and the digest cache
\* stays as it was, without an entry for the digest; and an upload of content
\* whose digest the cache does not hold sends the credential POST.
C24_FailedUploadNotCached ==
    [][\A t \in TaskIds :
          /\ UploadFails(t)
               => /\ storage_cache' = storage_cache
                  /\ pc'[t] \notin {"post", "put"}
                  /\ locals[t].kind \notin DOMAIN locals[t].storage_results
                  /\ t \in DOMAIN task_results
                       => task_results'[t].result[1].storage = locals[t].storage_results
          /\ \A kind \in {"mono", "dual"} :
                ( /\ CallsUpload(t, kind)
                  /\ storage_enabled
                  /\ FileHash(output_fs'[ArtifactPath(t, kind)])
                         \notin DOMAIN storage_cache' )
                => /\ pc'[t] = "post"
                   /\ locals'[t].kind = kind
                   /\ ArtifactPath(t, kind) \in net'.post]_vars

\* The PUT of one task's mono artifact failed, the cache holds no entry for
\* its digest, and the other task's upload of the same content has sent its
\* own credential POST.
C24_Witness ==
    \E t \in TaskIds, u \in TaskIds :
        /\ t # u
        /\ t \in DOMAIN task_results
        /\ task_results[t].status = "completed"
        /\ ArtifactPath(t, "mono") \in net.put
        /\ ArtifactPath(t, "mono") \in DOMAIN output_fs
        /\ "mono" \notin DOMAIN task_results[t].result[1].storage
        /\ FileHash(output_fs[ArtifactPath(t, "mono")]) \notin DOMAIN storage_cache
        /\ pc[u] = "post"
        /\ Transferring(u) = Some(FileHash(output_fs[ArtifactPath(t, "mono")]))

\* C25: every entry of the task registry whose status is cancelled carries
\* the message "Translation was cancelled" in its error field.
C25_CancelledHasMessage ==
    \A t \in DOMAIN task_results :
        task_results[t].status = "cancelled"
            => task_results[t].error = Some(CancelledMessage)

\* An entry that cancel_task marked cancelled after the coroutine had ended:
\* the request was answered 200 and the entry has no error message.
C25_Witness ==
    \E t \in DOMAIN task_results :
        /\ resp.op = "cancel_task" /\ resp.arg = t /\ resp.code = 200
        /\ pc[t] = "done"
        /\ ~cancel_requested[t]
        /\ task_results[t].status = "cancelled"
        /\ task_results[t].error = None

\* C26: after a cancel request for an active task the task leaves the active
\* set and its entry reaches a terminal status, whatever the engine does with
\* the cancellation.
C26_CancelEventuallyEnds ==
    \A t \in TaskIds :
        (t \in active_tasks /\ cancel_requested[t])
            ~> ( /\ t \notin active_tasks
                 /\ t \in DOMAIN task_results => task_results[t].status \in Terminal )

\* cancel_task has just answered 200 for a task that waits for its engine.
C26_Witness ==
    \E t \in TaskIds :
        /\ resp.op = "cancel_task" /\ resp.arg = t /\ resp.code = 200
        /\ t \in active_tasks
        /\ cancel_requested[t]
        /\ pc[t] = "stream"
        /\ task_results[t].status = "running"

\* C27: a progress event that lacks the progress value or the stage label
\* leaves that field of the entry as it was, applies the fields it carries,
\* and the task stays running, active and waiting for the next event.
C27_PartialProgressApplied ==
    [][\A t \in TaskIds, event \in ProgressEvents :
          ( /\ OnProgress(t, event)
            /\ t \in DOMAIN task_results
            /\ ProgressFailure(event) # None )
          => /\ pc'[t] = "stream"
             /\ t \in active_tasks'
             /\ task_results'[t].status = "running"
             /\ task_results'[t].progress =
                  IF "overall_progress" \in DOMAIN event THEN event.overall_progress
                  ELSE task_results[t].progress
             /\ task_results'[t].stage =
                  IF "stage" \in DOMAIN event THEN event.stage
                  ELSE task_results[t].stage]_vars

\* A task that ended with the KeyError of a progress event that had no stage
\* label; its progress is still the initial 0, not the event's 42.
C27_Witness ==
    \E t \in DOMAIN task_results :
        /\ pc[t] = "done"
        /\ last_event[t] # None
        /\ last_event[t][1].type = "progress_update"
        /\ "stage" \notin DOMAIN last_event[t][1]
        /\ task_results[t].status = "error"
        /\ task_results[t].error = Some(KeyErrorStr("stage"))
        /\ task_results[t].progress = 0
        /\ t \notin active_tasks

\* C28: from the step that consumes the finish event on, also while the
\* artifact upload waits for the storage service and whatever cancel request
\* arrives meanwhile, the task's entry has status completed, progress 100 and
\* a result.
C28_CompletedBeforeUpload ==
    \A t \in TaskIds :
        (Consumed(t, "finish") /\ t \in DOMAIN task_results)
        => /\ task_results[t].status = "completed"
           /\ task_results[t].progress = 100
           /\ task_results[t].result # None

\* A task cancelled while its PUT was in flight: the finish event was consumed
\* and the PUT sent, yet the task ended cancelled with no result.
C28_Witness ==
    \E t \in DOMAIN task_results :
        /\ Consumed(t, "finish")
        /\ ArtifactPath(t, "mono") \in net.put
        /\ cancel_requested[t]
        /\ pc[t] = "done"
        /\ task_results[t].status = "cancelled"
        /\ task_results[t].result = None
        /\ task_results[t].progress # 100

\* The keys the progress branch writes (lines 613-618).
ProgressFieldNames ==
    {"progress", "stage", "part_index", "total_parts", "stage_current", "stage_total"}

\* The progress fields of an entry.
ProgressFields(entry) ==
    [f \in ProgressFieldNames \cap DOMAIN entry |-> entry[f]]

\* C29: one step applies the whole update of an event.  A progress event
\* that carries progress and stage changes the six progress fields together
\* and nothing else; one that fails leaves the progress fields as they were;
\* the completed update sets status, progress, stage and result together, so
\* that no state a poll can read has a result without status completed, or
\* status completed without progress 100 and a result.
C29_EventUpdatesWhole ==
    [][\A t \in TaskIds :
          (t \in DOMAIN task_results /\ t \in DOMAIN task_results')
          => LET old == task_results[t]
                 new == task_results'[t]
             IN
             /\ \A event \in ProgressEvents :
                   OnProgress(t, event)
                   => IF ProgressFailure(event) = None
                      THEN /\ DOMAIN ProgressFields(new) = ProgressFieldNames
                           /\ new.progress = event.overall_progress
                           /\ new.stage = event.stage
                           /\ new.part_index = event.part_index
                           /\ new.total_parts = event.total_parts
                           /\ new.stage_current = 1
                           /\ new.stage_total = 1
                           /\ new.status = old.status
                           /\ new.result = old.result
                           /\ new.error = old.error
                      ELSE ProgressFields(new) = ProgressFields(old)
             /\ (new.status = "completed") = (new.result # None)
             /\ new.status = "completed"
                  => new.progress = 100 /\ new.stage = "Translation complete"
             /\ StatusResponse(t)' = Ok("get_task_status", t, new)]_vars

\* A task applied a full progress event, then failed on an event without
\* stage: the entry kept the earlier event's progress fields.
C29_Witness ==
    \E t \in DOMAIN task_results :
        /\ pc[t] = "done"
        /\ last_event[t] # None
        /\ "stage" \notin DOMAIN last_event[t][1]
        /\ task_results[t].status = "error"
        /\ task_results[t].error = Some(KeyErrorStr("stage"))
        /\ ProgressFields(task_results[t])
             = [progress |-> 42, stage |-> "Rendering", part_index |-> 2,
                total_parts |-> 3, stage_current |-> 1, stage_total |-> 1]

\* The output directory of task u and the files in it.
OutputTree(u) ==
    [dir |-> u \in output_dirs,
     files |-> [p \in {q \in DOMAIN output_fs : q.task_id = u} |-> output_fs[p]]]

\* C30: a release of a task, whatever task_id the request names, leaves the
\* file registry and every uploaded file as they were and touches no other
\* task's entry, active-set membership or output directory; a release of a
\* file leaves the task registry, the active set and every output directory
\* as they were.
C30_ReleaseFrames ==
    [][/\ \A t \in TaskIds \cup {UploadsDir} :
             cleanup_task(t)
             => /\ uploaded_files' = uploaded_files
                /\ upload_dirs' = upload_dirs
                /\ upload_fs' = upload_fs
                /\ \A u \in TaskIds \ {t} :
                      /\ EntryOf(u)' = EntryOf(u)
                      /\ (u \in active_tasks') = (u \in active_tasks)
                      /\ OutputTree(u)' = OutputTree(u)
       /\ \A file_id \in FileIds :
             cleanup_uploaded_file(file_id)
             => /\ task_results' = task_results
                /\ active_tasks' = active_tasks
                /\ output_dirs' = output_dirs
                /\ output_fs' = output_fs]_vars

\* DELETE /api/task/uploads has just been answered 200: the file registry
\* still holds a file_id whose file and upload directory are gone, and a
\* start with that file_id would be answered 404.
C30_Witness ==
    /\ resp = Ok("cleanup_task", UploadsDir, [status |-> "cleaned"])
    /\ \E file_id \in DOMAIN uploaded_files :
          /\ file_id \notin upload_dirs
          /\ ~UploadExists(uploaded_files[file_id])

\* The content is not empty, at most 100 MB long and begins with %PDF-.
ContentAcceptable(content) ==
    /\ ByteLen(content) > 0
    /\ ByteLen(content) <= MaxUploadBytes
    /\ StartsWith(content, PdfMagic)

\* The filename is present and ends with .pdf in any letter case.
NameAcceptable(filename) ==
    /\ filename # <<>>
    /\ EndsWith(Lower(filename), DotPdf)

\* C31 as stated: an upload is accepted exactly when its content is
\* acceptable, whatever the filename; oversized content is answered 413 and
\* every other rejection 400.
C31_ContentAloneDecides ==
    resp.op = "upload_file"
    => LET content == resp.arg.content IN
       /\ (resp.code = 200) = ContentAcceptable(content)
       /\ (resp.code = 413) = (ByteLen(content) > MaxUploadBytes)
       /\ resp.code \in {200, 400, 413}

\* C31, amended: an upload is accepted exactly when its filename is present
\* and ends with .pdf and its content is acceptable; it is answered 413
\* exactly when the filename is acceptable and the content is oversized, and
\* 400 for every other rejection.
C31_NameAndContentDecide ==
    resp.op = "upload_file"
    => LET content == resp.arg.content
           filename == resp.arg.filename
       IN
       /\ (resp.code = 200) = (NameAcceptable(filename) /\ ContentAcceptable(content))
       /\ (resp.code = 413) =
             (NameAcceptable(filename) /\ ByteLen(content) > MaxUploadBytes)
       /\ resp.code \in {200, 400, 413}
       /\ resp.code = 200 => "file_id" \in DOMAIN resp.body

\* A well-formed PDF of exactly 100 MB sent as "a.txt" has just been rejected
\* for its name.
C31_Witness ==
    /\ resp.op = "upload_file" /\ resp.code = 400
    /\ resp.arg.content = AtLimit
    /\ resp.arg.filename = <<"a", ".", "t", "x", "t">>
    /\ resp.body = [detail |-> "Only PDF files are supported"]

\* Task t was started and has been released: its coroutine has made its first
\* run, which wrote the entry (line 607), and the entry is gone.
Released(t) ==
    /\ pc[t] \notin {"none", "spawned"}
    /\ t \notin DOMAIN task_results

\* C32: once a started task has been released, no step gives it a registry
\* entry or a place in the active set again, whether its coroutine had ended
\* or was still running when it was released.
C32_ReleasedStaysAbsent ==
    [][\A t \in TaskIds :
          Released(t)
          => /\ t \notin active_tasks
             /\ Released(t)'
             /\ t \notin active_tasks']_vars

\* A task released after it had consumed an event and while it still ran: the
\* cancellation handler has since run and failed on the missing entry.
C32_Witness ==
    \E t \in TaskIds :
        /\ Released(t)
        /\ cancel_requested[t]
        /\ last_event[t] # None
        /\ pc[t] = "crashed"
        /\ t \notin active_tasks
        /\ t \notin output_dirs

\* C33: a task in the active set has no registry entry yet or has status
\* running: no state that a poll or a cancel request can meet holds a
\* terminal task that is still active.
C33_ActiveIsRunning ==
    \A t \in active_tasks :
        /\ t \in DOMAIN task_results => task_results[t].status = "running"
        /\ t \notin DOMAIN task_results => pc[t] = "spawned"

\* One task has ended completed and left the active set while the other,
\* with a cancellation pending, still waits for its credential POST as an
\* active, running task.
C33_Witness ==
    \E t \in TaskIds, u \in TaskIds :
        /\ t \in active_tasks
        /\ pc[t] = "post"
        /\ cancel_requested[t]
        /\ task_results[t].status = "running"
        /\ u \notin active_tasks
        /\ u \in DOMAIN task_results
        /\ task_results[u].status = "completed"

\* The shape every entry has: a result exactly when completed, progress 100
\* when completed, and the error field set when the status is error.
EntryShape(entry) ==
    /\ (entry.result # None) = (entry.status = "completed")
    /\ entry.status = "completed" => entry.progress = 100
    /\ entry.status = "error" => entry.error # None

\* C34 as stated: every entry has a result exactly when it is completed,
\* progress 100 when completed, and a message that is not empty when its
\* status is error; a task cancelled after the finish event has no result.
C34_ErrorMessageNotEmpty ==
    \A t \in DOMAIN task_results :
        /\ EntryShape(task_results[t])
        /\ task_results[t].status = "error" => task_results[t].error # Some("")
        /\ (task_results[t].status = "cancelled" /\ Consumed(t, "finish"))
             => task_results[t].result = None

\* C34, amended: every entry has a result exactly when it is completed,
\* progress 100 when completed, and its error field set (to a text that may
\* be empty) when its status is error; a task cancelled after the finish
\* event has no result.
C34_EntryShape ==
    \A t \in DOMAIN task_results :
        /\ EntryShape(task_results[t])
        /\ (task_results[t].status = "cancelled" /\ Consumed(t, "finish"))
             => task_results[t].result = None

\* A task ended by an exception that carried no message: status error with
\* the empty text as error, beside a task cancelled during its upload.
C34_Witness ==
    \E t \in DOMAIN task_results, u \in DOMAIN task_results :
        /\ task_results[t].status = "error"
        /\ task_results[t].error = Some("")
        /\ task_results[t].result = None
        /\ task_results[u].status = "cancelled"
        /\ Consumed(u, "finish")
        /\ task_results[u].result = None

\* C35: a cancel request for a task that has an entry with status running
\* and is not in the active set is answered 200, sets the entry's status to
\* cancelled and changes nothing else, in the entry or outside it.
C35_CancelEndedRunning ==
    [][\A t \in TaskIds :
          ( /\ cancel_task(t)
            /\ t \notin active_tasks
            /\ t \in DOMAIN task_results
            /\ task_results[t].status = "running" )
          => /\ resp' = Ok("cancel_task", t, [status |-> "cancelled"])
             /\ task_results' =
                  [task_results EXCEPT ![t] = [@ EXCEPT !.status = "cancelled"]]
             /\ UNCHANGED << active_tasks, cancel_requested, pc, output_dirs,
                             output_fs, fileVars, storeVars >>]_vars

\* A task whose stream ended after a progress event has just been cancelled:
\* the entry is cancelled and still shows the event's progress fields.
C35_Witness ==
    \E t \in DOMAIN task_results :
        /\ resp = Ok("cancel_task", t, [status |-> "cancelled"])
        /\ t \notin active_tasks
        /\ pc[t] = "done"
        /\ task_results[t].status = "cancelled"
        /\ "part_index" \in DOMAIN task_results[t]
        /\ task_results[t].progress = 42
        /\ task_results[t].stage = "Rendering"
        /\ task_results[t].result = None

\* C36: the step that consumes a progress event leaves the status, the error
\* and the result of the task's entry as they were, so the task is running
\* after it as it was before.
C36_ProgressKeepsStatus ==
    [][\A t \in TaskIds, event \in ProgressEvents :
          (OnProgress(t, event) /\ t \in DOMAIN task_results)
          => /\ t \in DOMAIN task_results'
             /\ task_results'[t].status = task_results[t].status
             /\ task_results'[t].error = task_results[t].error
             /\ task_results'[t].result = task_results[t].result
             /\ task_results'[t].status = "running"]_vars

\* A task that consumed a progress_end event without a progress value: the
\* step moved it from running to error.
C36_Witness ==
    \E t \in DOMAIN task_results :
        /\ pc[t] = "done"
        /\ ~cancel_requested[t]
        /\ last_event[t] # None
        /\ last_event[t][1].type = "progress_end"
        /\ "overall_progress" \notin DOMAIN last_event[t][1]
        /\ task_results[t].status = "error"
        /\ task_results[t].error = Some(KeyErrorStr("overall_progress"))

\* C37: a step that takes an entry to status error or cancelled changes its
\* status and error fields alone: the progress, the stage, the counters and
\* the result are those of the last applied event.
C37_EndKeepsProgress ==
    [][\A t \in TaskIds :
          ( /\ t \in DOMAIN task_results
            /\ t \in DOMAIN task_results'
            /\ task_results'[t].status \in {"error", "cancelled"}
            /\ task_results'[t].status # task_results[t].status )
          => /\ DOMAIN task_results'[t] = DOMAIN task_results[t]
             /\ \A f \in DOMAIN task_results[t] \ {"status", "error"} :
                   task_results'[t][f] = task_results[t][f]]_vars

\* One task ended by an error event and one by a delivered cancellation,
\* each after a progress event whose fields the entry still shows.
C37_Witness ==
    \E t \in DOMAIN task_results, u \in DOMAIN task_results :
        /\ task_results[t].status = "error"
        /\ task_results[t].error = Some("engine crashed")
        /\ ProgressFields(task_results[t])
             = [progress |-> 42, stage |-> "Rendering", part_index |-> 2,
                total_parts |-> 3, stage_current |-> 1, stage_total |-> 1]
        /\ task_results[u].status = "cancelled"
        /\ task_results[u].error = Some(CancelledMessage)
        /\ task_results[u].progress = 42
        /\ task_results[u].total_parts = 3

\* C38: a start request that is refused (unknown file_id, missing file,
\* invalid configuration) returns no task_id, spawns no coroutine and leaves
\* the task registry, the active set and the output directories as they
\* were.
C38_RefusedStartLeavesNothing ==
    [][\A file_id \in FileIds, valid \in BOOLEAN :
          (translate_with_file_id(file_id, valid) /\ resp'.code # 200)
          => /\ "task_id" \notin DOMAIN resp'.body
             /\ pc' = pc
             /\ task_results' = task_results
             /\ active_tasks' = active_tasks
             /\ output_dirs' = output_dirs]_vars

\* A start request has just been refused for its configuration: the output
\* directory made for it is on disk, for a task that was never spawned and
\* is in neither registry.
C38_Witness ==
    /\ resp.op = "translate_with_file_id" /\ resp.code = 400
    /\ ~resp.arg.settings_valid
    /\ nTasks \in output_dirs
    /\ pc[nTasks] = "none"
    /\ nTasks \notin DOMAIN task_results
    /\ nTasks \notin active_tasks

====
